---- MODULE Spec2Model ----
(***************************************************************************)
(* Model of cpuScheduler.cpp: the menu loop of main, executeScheduler, the *)
(* four scheduling policies of class Scheduler (FCFS, SJF, RoundRobin,     *)
(* PriorityScheduling) and the aggregation done by displayResults.         *)
(*                                                                         *)
(* Vectors are sequences, so indices are 1-based: the source's index i is  *)
(* i + 1 here and the source's "-1" (nothing selected) is 0.               *)
(***************************************************************************)
EXTENDS Integers, Sequences, FiniteSets, TLC

VARIABLES
    processes,      \* main: the caller's process list
    tempProcesses,  \* executeScheduler: the copy the policy works on
    execution,      \* the policy's vector<ExecutionSegment>
    pc,             \* where the program is
    choice,         \* main: the menu choice
    timeQuantum,    \* RoundRobin parameter
    withAging,      \* PriorityScheduling parameter
    currentTime,    \* the policy's clock
    processed,      \* SJF / PriorityScheduling: vector<bool> processed
    completed,      \* SJF / PriorityScheduling: int completed
    q,              \* RoundRobin: queue<int> q
    remainingTime,  \* RoundRobin: vector<int> remainingTime
    i,              \* FCFS: position of the range-for loop
    shortest,       \* SJF: index selected by the last iteration
    highest,        \* PriorityScheduling: index selected by the last iteration
    idx,            \* RoundRobin: index dequeued by the last iteration
    report          \* displayResults: the aggregate it printed

vars == <<processes, tempProcesses, execution, pc, choice, timeQuantum,
          withAging, currentTime, processed, completed, q, remainingTime,
          i, shortest, highest, idx, report>>

----------------------------------------------------------------------------
(* Bounds of the enumerated inputs *)

MaxProcs == 2
MaxArrival == 1
MaxBurst == 2
MaxPriority == 1
MaxQuantum == 2
MaxSegments == 4

(* Program constants *)

INT_MAX == 2147483647
agingInterval == 5

----------------------------------------------------------------------------
(* Process::Process *)
Process(PID, arrivalTime, burstTime, priority) ==
    [PID |-> PID, arrivalTime |-> arrivalTime, burstTime |-> burstTime,
     priority |-> priority, remainingTime |-> burstTime,
     completionTime |-> 0, turnaroundTime |-> 0, waitingTime |-> 0]

(* setCompletionTime; calculateTurnaroundTime; calculateWaitingTime *)
Complete(p, time) ==
    LET c == [p EXCEPT !.completionTime = time]
        t == [c EXCEPT !.turnaroundTime = c.completionTime - c.arrivalTime]
    IN  [t EXCEPT !.waitingTime = t.turnaroundTime - t.burstTime]

ExecutionSegment(processID, startTime, endTime) ==
    [processID |-> processID, startTime |-> startTime, endTime |-> endTime]

Min(a, b) == IF a < b THEN a ELSE b

----------------------------------------------------------------------------
(* main: the process lists the program can hold when the menu is shown *)

defaultProcesses ==
    << Process(1, 3, 5, 8), Process(3, 7, 5, 2), Process(2, 9, 7, 1),
       Process(4, 8, 2, 9), Process(7, 4, 1, 3), Process(6, 3, 1, 1),
       Process(5, 1, 9, 6), Process(8, 7, 3, 5), Process(9, 1, 4, 2),
       Process(10, 9, 3, 5) >>

(* lists typed in interactively: n > 0 entries of PID Arrival Burst Priority *)
TypedEntry == [at : 0..MaxArrival, bt : 1..MaxBurst, pr : 0..MaxPriority]

ListsOf(entries) ==
    UNION { [1..n -> entries] : n \in 1..MaxProcs }

TypedLists == ListsOf(TypedEntry)

(* the typed lists in which every process has the same priority *)
OneLevelLists == ListsOf({ e \in TypedEntry : e.pr = 0 })

FromTyped(f) ==
    [k \in 1..Len(f) |-> Process(k, f[k].at, f[k].bt, f[k].pr)]

(* further interactive inputs, given literally *)
FCFSExample == << Process(1, 0, 8, 1), Process(2, 1, 4, 2), Process(3, 2, 2, 1) >>
SJFExample  == << Process(1, 0, 7, 0), Process(2, 2, 4, 0), Process(3, 4, 1, 0),
                  Process(4, 5, 4, 0) >>
RRExample   == << Process(1, 0, 5, 0), Process(2, 0, 3, 0) >>
AgingExamples ==
    { << Process(1, 0, 5, 0), Process(2, 0, 5, p), Process(3, 5, 1, p) >> :
         p \in -1..2 }
StarvedExample == << Process(1, 0, 6, 0), Process(2, 0, 6, 2), Process(3, 6, 1, 1) >>
GapExamples ==
    { << Process(1, 0, 1, 1), Process(2, 2, 2, 0) >>,
      << Process(1, 3, 1, 0), Process(2, 0, 2, 1) >>,
      << Process(1, 4, 2, 0), Process(2, 0, 1, 0), Process(3, 2, 1, 1) >> }
(* the input loop accepts any integers: a burst of 0 *)
ZeroBurstExample == << Process(1, 0, 0, 0) >>
DuplicateIdExample == << Process(1, 1, 1, 0), Process(1, 0, 2, 1) >>
UnorderedIdExample == << Process(7, 2, 2, 1), Process(3, 1, 1, 0) >>

LiteralLists ==
    { defaultProcesses, FCFSExample, SJFExample, RRExample, StarvedExample,
      DuplicateIdExample, UnorderedIdExample, ZeroBurstExample }
        \cup AgingExamples
        \cup GapExamples

Quanta == -1..MaxQuantum

----------------------------------------------------------------------------
(* std::sort(processes.begin(), processes.end(), a.arrival < b.arrival):   *)
(* the result is the list in ascending arrival order; std::sort is not a   *)
(* stable sort, so the order it leaves equal arrivals in is any order.     *)

(* ps without its k-th element *)
Without(ps, k) ==
    SubSeq(ps, 1, k - 1) \o SubSeq(ps, k + 1, Len(ps))

(* the positions of ps holding the least arrival *)
Earliest(ps) ==
    { k \in 1..Len(ps) :
         \A j \in 1..Len(ps) : ~(ps[j].arrivalTime < ps[k].arrivalTime) }

RECURSIVE SortOutcomes(_)
SortOutcomes(ps) ==
    IF ps = << >> THEN { << >> }
    ELSE UNION { { << ps[k] >> \o rest : rest \in SortOutcomes(Without(ps, k)) } :
                    k \in Earliest(ps) }

----------------------------------------------------------------------------
InitWith(typed) ==
    /\ processes \in { FromTyped(f) : f \in typed } \cup LiteralLists
    /\ tempProcesses = << >>
    /\ execution = << >>
    /\ pc = "menu"
    /\ choice = 0
    /\ timeQuantum = 0
    /\ withAging = FALSE
    /\ currentTime = 0
    /\ processed = << >>
    /\ completed = 0
    /\ q = << >>
    /\ remainingTime = << >>
    /\ i = 0
    /\ shortest = 0
    /\ highest = 0
    /\ idx = 0
    /\ report = << >>

Init == InitWith(TypedLists)

(* executeScheduler: vector<Process> tempProcesses = processes; then the   *)
(* selected case runs the policy on tempProcesses.  Each Choose action     *)
(* below is the menu read plus the part of the policy before its loop.     *)
Enter(c, quantum, aging) ==
    /\ pc = "menu"
    /\ choice' = c
    /\ timeQuantum' = quantum
    /\ withAging' = aging
    /\ execution' = << >>
    /\ report' = << >>
    /\ UNCHANGED processes

(* the locals of the policy about to run: its processed flags, its         *)
(* remainingTime and queue, its loop position; the others stay unset       *)
Locals(flags, remaining, queue, position) ==
    /\ processed' = flags
    /\ completed' = 0
    /\ q' = queue
    /\ remainingTime' = remaining
    /\ i' = position
    /\ shortest' = 0
    /\ highest' = 0
    /\ idx' = 0

----------------------------------------------------------------------------
(* Scheduler::FCFS *)

ChooseFCFS ==
    /\ Enter(1, 0, FALSE)
    /\ tempProcesses' \in SortOutcomes(processes)
    /\ currentTime' = 0
    /\ Locals(<< >>, << >>, << >>, 1)
    /\ pc' = "FCFS"

(* the start taken from the arrival alone, whatever the clock says *)
FCFSStart_ArrivalOnly(time, p) ==
    p.arrivalTime

(* if (currentTime < p.getArrivalTime()) currentTime = p.getArrivalTime(); *)
(* int startTime = currentTime;                                            *)
FCFSStart(time, p) ==
    IF time < p.arrivalTime THEN p.arrivalTime ELSE time

FCFSStep ==
    /\ pc = "FCFS"
    /\ i <= Len(tempProcesses)
    /\ LET p == tempProcesses[i]
           startTime == FCFSStart(currentTime, p)
           endTime == startTime + p.burstTime
       IN  /\ currentTime' = endTime
           /\ tempProcesses' = [tempProcesses EXCEPT ![i] = Complete(p, endTime)]
           /\ execution' = Append(execution, ExecutionSegment(p.PID, startTime, endTime))
    /\ i' = i + 1
    /\ UNCHANGED <<processes, pc, choice, timeQuantum, withAging, processed,
                   completed, q, remainingTime, shortest, highest, idx, report>>

----------------------------------------------------------------------------
(* Scheduler::SJF *)

ChooseSJF ==
    /\ Enter(2, 0, FALSE)
    /\ tempProcesses' = processes
    /\ currentTime' = 0
    /\ Locals([k \in 1..Len(processes) |-> FALSE], << >>, << >>, 0)
    /\ pc' = "SJF"

(* the scan with <= for <: an equal burst found later replaces the earlier *)
RECURSIVE ShortestScan_LastWins(_, _, _, _, _, _)
ShortestScan_LastWins(ps, done, time, k, s, sb) ==
    IF k > Len(ps) THEN s
    ELSE IF ~done[k] /\ ps[k].arrivalTime <= time /\ ps[k].burstTime <= sb
         THEN ShortestScan_LastWins(ps, done, time, k + 1, k, ps[k].burstTime)
         ELSE ShortestScan_LastWins(ps, done, time, k + 1, s, sb)

(* the scan without the arrival test: a job not yet arrived can be chosen *)
RECURSIVE ShortestScan_IgnoresArrival(_, _, _, _, _, _)
ShortestScan_IgnoresArrival(ps, done, time, k, s, sb) ==
    IF k > Len(ps) THEN s
    ELSE IF ~done[k] /\ ps[k].burstTime < sb
         THEN ShortestScan_IgnoresArrival(ps, done, time, k + 1, k, ps[k].burstTime)
         ELSE ShortestScan_IgnoresArrival(ps, done, time, k + 1, s, sb)

(* the selection loop, lines 117-123: s and sb are shortest, shortestBurst *)
RECURSIVE ShortestScan(_, _, _, _, _, _)
ShortestScan(ps, done, time, k, s, sb) ==
    IF k > Len(ps) THEN s
    ELSE IF ~done[k] /\ ps[k].arrivalTime <= time /\ ps[k].burstTime < sb
         THEN ShortestScan(ps, done, time, k + 1, k, ps[k].burstTime)
         ELSE ShortestScan(ps, done, time, k + 1, s, sb)

(* the fallback loop, lines 127-133: the first index not yet processed *)
RECURSIVE FirstUnprocessed(_, _)
FirstUnprocessed(done, k) ==
    IF k > Len(done) THEN 0
    ELSE IF ~done[k] THEN k
    ELSE FirstUnprocessed(done, k + 1)

SJFStep ==
    /\ pc = "SJF"
    /\ completed < Len(tempProcesses)
    /\ LET found == ShortestScan(tempProcesses, processed, currentTime, 1, 0, INT_MAX)
           sel == IF found = 0 THEN FirstUnprocessed(processed, 1) ELSE found
           startTime == IF found = 0 THEN tempProcesses[sel].arrivalTime
                                     ELSE currentTime
           endTime == startTime + tempProcesses[sel].burstTime
       IN  /\ shortest' = sel
           /\ processed' = [processed EXCEPT ![sel] = TRUE]
           /\ currentTime' = endTime
           /\ tempProcesses' = [tempProcesses EXCEPT
                                   ![sel] = Complete(tempProcesses[sel], endTime)]
           /\ execution' = Append(execution,
                  ExecutionSegment(tempProcesses[sel].PID, startTime, endTime))
    /\ completed' = completed + 1
    /\ UNCHANGED <<processes, pc, choice, timeQuantum, withAging, q,
                   remainingTime, i, highest, idx, report>>

----------------------------------------------------------------------------
(* Scheduler::RoundRobin *)

(* lines 158-174: remainingTime is filled from the list as passed in, then *)
(* the list is sorted, then every index is enqueued                        *)
ChooseRoundRobin(quantum) ==
    /\ Enter(3, quantum, FALSE)
    /\ tempProcesses' \in SortOutcomes(processes)
    /\ currentTime' = 0
    /\ Locals(<< >>, [k \in 1..Len(processes) |-> processes[k].burstTime],
              [k \in 1..Len(processes) |-> k], 0)
    /\ pc' = "RoundRobin"

(* every slice a whole quantum, the last one of a process included *)
RRSlice_WholeQuantum(remaining, quantum) ==
    quantum

(* the time the dequeued process runs for, lines 184-192 *)
RRSlice(remaining, quantum) ==
    IF remaining > quantum THEN quantum ELSE remaining

(* a start that waits for the arrival of the dequeued process *)
RRStart_WaitsForArrival(time, p) ==
    IF time < p.arrivalTime THEN p.arrivalTime ELSE time

(* int startTime = currentTime, line 183: the arrival is not consulted *)
RRStart(time, p) ==
    time

RRStep ==
    /\ pc = "RoundRobin"
    /\ q # << >>
    /\ timeQuantum > 0 \/ Len(execution) < MaxSegments
    /\ LET front == Head(q)
           p == tempProcesses[front]
           startTime == RRStart(currentTime, p)
           endTime == currentTime + RRSlice(remainingTime[front], timeQuantum)
       IN  /\ idx' = front
           /\ currentTime' = endTime
           /\ execution' = Append(execution, ExecutionSegment(p.PID, startTime, endTime))
           /\ IF remainingTime[front] > timeQuantum
              THEN /\ remainingTime' = [remainingTime EXCEPT
                                           ![front] = remainingTime[front] - timeQuantum]
                   /\ q' = Append(Tail(q), front)
                   /\ UNCHANGED tempProcesses
              ELSE /\ remainingTime' = [remainingTime EXCEPT ![front] = 0]
                   /\ q' = Tail(q)
                   /\ tempProcesses' = [tempProcesses EXCEPT
                                           ![front] = Complete(p, endTime)]
    /\ UNCHANGED <<processes, pc, choice, timeQuantum, withAging, processed,
                   completed, i, shortest, highest, report>>

----------------------------------------------------------------------------
(* Scheduler::PriorityScheduling *)

ChoosePriorityScheduling(aging) ==
    /\ Enter(IF aging THEN 5 ELSE 4, 0, aging)
    /\ tempProcesses' = processes
    /\ currentTime' = 0
    /\ Locals([k \in 1..Len(processes) |-> FALSE], << >>, << >>, 0)
    /\ pc' = "PriorityScheduling"

(* the priority taken as given, the aging flag ignored *)
effectivePriority_NoAging(aging, priority, time, at) ==
    priority

(* lines 231-239; waitTime >= 0 here, so C++'s / is \div *)
effectivePriority(aging, priority, time, at) ==
    IF aging
    THEN LET waitTime == time - at
             priorityDrop == waitTime \div agingInterval
             e == priority - priorityDrop
         IN  IF e < 0 THEN 0 ELSE e
    ELSE priority

(* the comparison without its second tie-break, on the burst *)
Replaces_NoBurstTieBreak(ps, k, ek, h, hp) ==
    \/ ek < hp
    \/ /\ ek = hp
       /\ ps[k].arrivalTime < ps[h].arrivalTime

(* lines 242-254: does candidate k replace the current selection h, whose  *)
(* effective priority is hp                                                *)
Replaces(ps, k, ek, h, hp) ==
    \/ ek < hp
    \/ /\ ek = hp
       /\ \/ ps[k].arrivalTime < ps[h].arrivalTime
          \/ /\ ps[k].arrivalTime = ps[h].arrivalTime
             /\ ps[k].burstTime < ps[h].burstTime

(* the selection loop, lines 225-255: h and hp are highest, highestPriority *)
RECURSIVE HighestScan(_, _, _, _, _, _, _)
HighestScan(ps, done, aging, time, k, h, hp) ==
    IF k > Len(ps) THEN h
    ELSE IF done[k] \/ ps[k].arrivalTime > time
         THEN HighestScan(ps, done, aging, time, k + 1, h, hp)
         ELSE LET ek == effectivePriority(aging, ps[k].priority, time,
                                          ps[k].arrivalTime)
              IN  IF Replaces(ps, k, ek, h, hp)
                  THEN HighestScan(ps, done, aging, time, k + 1, k, ek)
                  ELSE HighestScan(ps, done, aging, time, k + 1, h, hp)

(* the arrival of the first unprocessed index, as SJF's fallback takes it *)
NextArrival_FirstUnprocessed(ps, done, k, nextArrival) ==
    LET first == CHOOSE j \in 1..Len(ps) :
                    ~done[j] /\ \A h \in 1..(j - 1) : done[h]
    IN  ps[first].arrivalTime

(* the minimum taken over every process, processed or not *)
RECURSIVE NextArrival_AllProcesses(_, _, _, _)
NextArrival_AllProcesses(ps, done, k, nextArrival) ==
    IF k > Len(ps) THEN nextArrival
    ELSE NextArrival_AllProcesses(ps, done, k + 1,
                                  Min(nextArrival, ps[k].arrivalTime))

(* lines 259-262: the minimum arrival over the unprocessed, from INT_MAX *)
RECURSIVE NextArrival(_, _, _, _)
NextArrival(ps, done, k, nextArrival) ==
    IF k > Len(ps) THEN nextArrival
    ELSE NextArrival(ps, done, k + 1,
                     IF ~done[k] THEN Min(nextArrival, ps[k].arrivalTime)
                                 ELSE nextArrival)

(* lines 258-265: nothing is ready, jump the clock and restart the loop *)
PriorityIdle ==
    /\ pc = "PriorityScheduling"
    /\ completed < Len(tempProcesses)
    /\ HighestScan(tempProcesses, processed, withAging, currentTime, 1, 0, INT_MAX) = 0
    /\ currentTime' = NextArrival(tempProcesses, processed, 1, INT_MAX)
    /\ highest' = 0
    /\ UNCHANGED <<processes, tempProcesses, execution, pc, choice, timeQuantum,
                   withAging, processed, completed, q, remainingTime, i,
                   shortest, idx, report>>

(* lines 267-276 *)
PriorityRun ==
    /\ pc = "PriorityScheduling"
    /\ completed < Len(tempProcesses)
    /\ LET sel == HighestScan(tempProcesses, processed, withAging, currentTime,
                              1, 0, INT_MAX)
           startTime == currentTime
           endTime == currentTime + tempProcesses[sel].burstTime
       IN  /\ sel # 0
           /\ highest' = sel
           /\ processed' = [processed EXCEPT ![sel] = TRUE]
           /\ currentTime' = endTime
           /\ tempProcesses' = [tempProcesses EXCEPT
                                   ![sel] = Complete(tempProcesses[sel], endTime)]
           /\ execution' = Append(execution,
                  ExecutionSegment(tempProcesses[sel].PID, startTime, endTime))
    /\ completed' = completed + 1
    /\ UNCHANGED <<processes, pc, choice, timeQuantum, withAging, q,
                   remainingTime, i, shortest, idx, report>>

----------------------------------------------------------------------------
(* the policy's loop is over: it returns and displayResults is called *)

LoopDone ==
    \/ pc = "FCFS" /\ i > Len(tempProcesses)
    \/ pc = "SJF" /\ ~(completed < Len(tempProcesses))
    \/ pc = "RoundRobin" /\ q = << >>
    \/ pc = "PriorityScheduling" /\ ~(completed < Len(tempProcesses))

Return ==
    /\ LoopDone
    /\ pc' = "displayResults"
    /\ UNCHANGED <<processes, tempProcesses, execution, choice, timeQuantum,
                   withAging, currentTime, processed, completed, q,
                   remainingTime, i, shortest, highest, idx, report>>

RECURSIVE SumOf(_, _)
SumOf(ps, field) ==
    IF ps = << >> THEN 0
    ELSE ps[1][field] + SumOf(Tail(ps), field)

(* the completion of the process listed last, whatever the others are *)
TotalTime_LastListed(ps, totalTime) ==
    IF ps = << >> THEN totalTime ELSE ps[Len(ps)].completionTime

(* lines 292-308: double totalTime = 0, raised to every larger completion *)
RECURSIVE TotalTime(_, _)
TotalTime(ps, totalTime) ==
    IF ps = << >> THEN totalTime
    ELSE TotalTime(Tail(ps), IF ps[1].completionTime > totalTime
                             THEN ps[1].completionTime ELSE totalTime)

(* a double quotient: num/den, or what IEEE division by zero gives *)
Quotient(num, den) ==
    IF den # 0 THEN <<"finite", num, den>>
    ELSE IF num = 0 THEN <<"nan", num, den>> ELSE <<"inf", num, den>>

(* the caller's list as the call left it, had the policy been given the   *)
(* caller's vector itself                                                  *)
CallersList_Aliased(base, worked) ==
    worked

(* line 400, vector<Process> tempProcesses = processes: the policy works   *)
(* on a copy, so the caller's list is as it was when the call returns      *)
CallersList(base, worked) ==
    base

(* displayResults, lines 292-319; displayGanttChart only prints; then      *)
(* executeScheduler returns to the menu loop                               *)
DisplayResults ==
    /\ pc = "displayResults"
    /\ LET n == Len(tempProcesses)
           totalTime == TotalTime(tempProcesses, 0)
       IN  report' = [avgTurnaround |-> Quotient(SumOf(tempProcesses, "turnaroundTime"), n),
                      avgWaiting |-> Quotient(SumOf(tempProcesses, "waitingTime"), n),
                      totalTime |-> totalTime,
                      throughput |-> Quotient(n, totalTime)]
    /\ tempProcesses' = << >>
    /\ execution' = << >>
    /\ currentTime' = 0
    /\ Locals(<< >>, << >>, << >>, 0)
    /\ timeQuantum' = 0
    /\ withAging' = FALSE
    /\ pc' = "menu"
    /\ processes' = CallersList(processes, tempProcesses)
    /\ UNCHANGED choice

(* main, lines 501-506: any other number prints "Invalid choice!" *)
ChooseInvalid ==
    /\ pc = "menu"
    /\ choice' \in {0, 7}
    /\ report' = << >>
    /\ UNCHANGED <<processes, tempProcesses, execution, pc, timeQuantum,
                   withAging, currentTime, processed, completed, q,
                   remainingTime, i, shortest, highest, idx>>

(* main, line 503 *)
Exit ==
    /\ pc = "menu"
    /\ choice' = 6
    /\ pc' = "exit"
    /\ UNCHANGED <<processes, tempProcesses, execution, timeQuantum, withAging,
                   currentTime, processed, completed, q, remainingTime, i,
                   shortest, highest, idx, report>>

Next ==
    \/ ChooseFCFS
    \/ FCFSStep
    \/ ChooseSJF
    \/ SJFStep
    \/ \E quantum \in Quanta : ChooseRoundRobin(quantum)
    \/ RRStep
    \/ \E aging \in BOOLEAN : ChoosePriorityScheduling(aging)
    \/ PriorityIdle
    \/ PriorityRun
    \/ Return
    \/ DisplayResults
    \/ ChooseInvalid
    \/ Exit

Spec == Init /\ [][Next]_vars

(* the policies and the report run to the end once started: the program is *)
(* sequential and nothing but its own loops keeps it from its next step    *)
Run == FCFSStep \/ SJFStep \/ RRStep \/ PriorityIdle \/ PriorityRun
          \/ Return \/ DisplayResults

(* Fairness is checked from the literal lists and the typed lists of one   *)
(* priority level: no loop condition of any policy reads a priority.       *)
FairInit == InitWith(OneLevelLists)

FairSpec == FairInit /\ [][Next]_vars /\ WF_vars(Run)

----------------------------------------------------------------------------
(* Vocabulary of the properties *)

Policies == {"FCFS", "SJF", "RoundRobin", "PriorityScheduling"}

Running == pc \in Policies

(* the policy has returned and its results have not yet been reported *)
Finished == pc = "displayResults"

(* the inputs section 6 of the specification asks of the caller *)
UniqueIds(ps) ==
    \A a, b \in 1..Len(ps) : a # b => ps[a].PID # ps[b].PID

PositiveQuantum == choice = 3 => timeQuantum > 0

PositiveBursts == \A k \in 1..Len(processes) : processes[k].burstTime > 0

ValidInput == UniqueIds(processes) /\ PositiveBursts /\ PositiveQuantum

(* total time of the segments carrying processID *)
RECURSIVE SegmentTime(_, _)
SegmentTime(segs, processID) ==
    IF segs = << >> THEN 0
    ELSE (IF segs[1].processID = processID
          THEN segs[1].endTime - segs[1].startTime ELSE 0)
         + SegmentTime(Tail(segs), processID)

----------------------------------------------------------------------------
(* C1: when a policy has finished on valid input, the durations of the     *)
(* segments carrying a process's id add up to that process's burst.        *)
C1_SegmentTimeIsBurst ==
    (Finished /\ ValidInput) =>
        \A k \in 1..Len(tempProcesses) :
            SegmentTime(execution, tempProcesses[k].PID) = tempProcesses[k].burstTime

(* C2: when a policy has finished on valid input, every process has        *)
(* turnaround = completion - arrival and waiting = turnaround - burst,     *)
(* with waiting >= 0 and turnaround >= burst.                              *)
C2_DerivedFieldsSound ==
    (Finished /\ ValidInput) =>
        \A k \in 1..Len(tempProcesses) :
            LET p == tempProcesses[k]
            IN  /\ p.turnaroundTime = p.completionTime - p.arrivalTime
                /\ p.waitingTime = p.turnaroundTime - p.burstTime
                /\ p.waitingTime >= 0
                /\ p.turnaroundTime >= p.burstTime

----------------------------------------------------------------------------
(* C3: with positive bursts and a positive quantum the segments emitted so  *)
(* far are a single-CPU timeline: each one ends after it starts, and each   *)
(* one starts no earlier than the one before it ends (hence in start order, *)
(* without overlap).                                                        *)
SingleCpuTimeline(segs) ==
    /\ \A k \in 1..Len(segs) : segs[k].endTime > segs[k].startTime
    /\ \A k \in 1..Len(segs) - 1 : segs[k + 1].startTime >= segs[k].endTime

C3_SingleCpuTimeline ==
    (PositiveBursts /\ PositiveQuantum) => SingleCpuTimeline(execution)

(* a finished run in which the clock once jumped over an idle gap, and a   *)
(* finished round-robin run that preempted                                 *)
C3_Witness ==
    /\ Finished
    /\ PositiveQuantum
    /\ Len(execution) >= 2
    /\ \/ \E k \in 1..Len(execution) - 1 :
              execution[k + 1].startTime > execution[k].endTime
       \/ Len(execution) > Len(tempProcesses)

----------------------------------------------------------------------------
(* C4: round-robin with a quantum <= 0 is rejected before the simulation:  *)
(* nothing is ever dequeued and no segment is emitted.                     *)
C4_NonPositiveQuantumRejected ==
    (choice = 3 /\ timeQuantum <= 0) =>
        (idx = 0 /\ execution = << >>)

----------------------------------------------------------------------------
(* the work a running policy still has to do: processes not yet scheduled  *)
(* (FCFS, SJF, PriorityScheduling, where an iteration that finds nothing   *)
(* ready counts as half a step) or the remaining time of all processes     *)
(* (RoundRobin)                                                            *)
RECURSIVE SumSeq(_)
SumSeq(xs) == IF xs = << >> THEN 0 ELSE xs[1] + SumSeq(Tail(xs))

NothingReady ==
    HighestScan(tempProcesses, processed, withAging, currentTime, 1, 0, INT_MAX) = 0

WorkLeft ==
    CASE pc = "FCFS" -> Len(tempProcesses) + 1 - i
      [] pc = "SJF" -> Len(tempProcesses) - completed
      [] pc = "RoundRobin" -> SumSeq(remainingTime)
      [] pc = "PriorityScheduling" ->
            2 * (Len(tempProcesses) - completed)
              + (IF completed < Len(tempProcesses) /\ NothingReady THEN 1 ELSE 0)
      [] OTHER -> 0

(* C5: once started on positive bursts with a positive quantum every       *)
(* policy terminates: each                                                 *)
(* iteration of a policy's loop leaves strictly less work (one more        *)
(* process scheduled, less total remaining time, or, after an idle advance *)
(* of PriorityScheduling, a selection that will succeed), the work never   *)
(* goes below zero, and the run reaches the end of the policy.             *)
C5_Terminates ==
    /\ [][(Running /\ PositiveBursts /\ PositiveQuantum /\ pc' = pc)
             => (WorkLeft' < WorkLeft /\ WorkLeft' >= 0)]_vars
    /\ [][(pc = "PriorityScheduling" /\ completed < Len(tempProcesses)
              /\ NothingReady) => ~NothingReady']_vars
    /\ (Running /\ PositiveBursts /\ PositiveQuantum) ~> Finished

(* PriorityScheduling has just jumped over an idle gap in the middle of a  *)
(* run, and a round-robin run is in the middle of a preempted process      *)
C5_Witness ==
    \/ /\ pc = "PriorityScheduling"
       /\ completed > 0
       /\ completed < Len(tempProcesses)
       /\ execution # << >>
       /\ currentTime > execution[Len(execution)].endTime
    \/ /\ pc = "RoundRobin"
       /\ timeQuantum > 0
       /\ idx # 0
       /\ remainingTime[idx] > 0

----------------------------------------------------------------------------
(* the unscheduled processes that have arrived by time *)
Ready(ps, done, time) ==
    { k \in 1..Len(ps) : ~done[k] /\ ps[k].arrivalTime <= time }

(* k comes before j in the order (burst, input index) *)
ShorterJob(ps, k, j) ==
    \/ ps[k].burstTime < ps[j].burstTime
    \/ ps[k].burstTime = ps[j].burstTime /\ k <= j

(* C6: every process SJF runs has the minimum burst, ties to the lowest    *)
(* input index, among the processes that were unscheduled when it was      *)
(* selected and whose arrival is <= the start of its segment (the idle     *)
(* advance retries the selection at the new time).                         *)
C6_SJFRunsShortestAtStart ==
    (choice = 2 /\ shortest # 0 /\ execution # << >>) =>
        LET startTime == execution[Len(execution)].startTime
            before == [processed EXCEPT ![shortest] = FALSE]
        IN  \A j \in Ready(tempProcesses, before, startTime) :
                ShorterJob(tempProcesses, shortest, j)

----------------------------------------------------------------------------
(* C7: at an SJF selection where some unscheduled process has arrived, the *)
(* process chosen has the minimum burst among the unscheduled arrived      *)
(* ones, ties to the lowest input index, and runs to completion in the one *)
(* segment [currentTime, currentTime + burst); on (1,0,7),(2,2,4),(3,4,1), *)
(* (4,5,4) the timeline is 1:[0,7), 3:[7,8), 2:[8,12), 4:[12,16).          *)
SJFExampleTimeline ==
    << ExecutionSegment(1, 0, 7), ExecutionSegment(3, 7, 8),
       ExecutionSegment(2, 8, 12), ExecutionSegment(4, 12, 16) >>

C7_SJFSelectsShortestReady ==
    /\ [][(/\ pc = "SJF"
           /\ completed < Len(tempProcesses)
           /\ Ready(tempProcesses, processed, currentTime) # {})
          => LET ready == Ready(tempProcesses, processed, currentTime)
                 p == tempProcesses[shortest']
             IN  /\ shortest' \in ready
                 /\ \A j \in ready : ShorterJob(tempProcesses, shortest', j)
                 /\ processed' = [processed EXCEPT ![shortest'] = TRUE]
                 /\ tempProcesses'[shortest'].completionTime
                        = currentTime + p.burstTime
                 /\ execution' = Append(execution,
                        ExecutionSegment(p.PID, currentTime,
                                         currentTime + p.burstTime))]_vars
    /\ [](Finished /\ choice = 2 /\ processes = SJFExample
             => execution = SJFExampleTimeline)

(* the example has been run to the end, its last selection having been a   *)
(* tie on the burst between the processes at indices 2 and 4               *)
C7_Witness ==
    /\ Finished
    /\ choice = 2
    /\ processes = SJFExample
    /\ Len(execution) = 4

----------------------------------------------------------------------------
(* the effective priority as section 4.4 of the specification defines it *)
Max(a, b) == IF a > b THEN a ELSE b

EffectiveOf(p, aging, time) ==
    IF aging
    THEN Max(0, p.priority - ((time - p.arrivalTime) \div 5))
    ELSE p.priority

(* k comes before j in the order (effective priority, arrival, burst,     *)
(* input index)                                                            *)
HigherPriority(ps, aging, time, k, j) ==
    LET ek == EffectiveOf(ps[k], aging, time)
        ej == EffectiveOf(ps[j], aging, time)
    IN  \/ ek < ej
        \/ /\ ek = ej
           /\ \/ ps[k].arrivalTime < ps[j].arrivalTime
              \/ /\ ps[k].arrivalTime = ps[j].arrivalTime
                 /\ \/ ps[k].burstTime < ps[j].burstTime
                    \/ ps[k].burstTime = ps[j].burstTime /\ k <= j

(* C8: at every PriorityScheduling selection the process chosen is the     *)
(* lexicographic minimum of (effective priority, arrival, burst, input     *)
(* index) over the unscheduled processes with arrival <= currentTime.      *)
C8_PrioritySelectsLexMin ==
    [][(/\ pc = "PriorityScheduling"
        /\ completed < Len(tempProcesses)
        /\ Ready(tempProcesses, processed, currentTime) # {})
       => LET ready == Ready(tempProcesses, processed, currentTime)
          IN  /\ highest' \in ready
              /\ \A j \in ready :
                    HigherPriority(tempProcesses, withAging, currentTime,
                                   highest', j)
              /\ processed' = [processed EXCEPT ![highest'] = TRUE]]_vars

(* a selection decided by aging and the arrival tie-break: at time 6 the   *)
(* process of priority 2 that has waited 6 is level with the priority-1    *)
(* process that has just arrived, and wins on its earlier arrival; and a   *)
(* selection decided on the burst                                          *)
C8_Witness ==
    \/ /\ pc = "PriorityScheduling"
       /\ withAging
       /\ processes = StarvedExample
       /\ highest = 2
       /\ ~processed[3]
    \/ /\ pc = "PriorityScheduling"
       /\ highest = 2
       /\ completed = 1
       /\ Len(tempProcesses) = 2
       /\ tempProcesses[1].priority = tempProcesses[2].priority
       /\ tempProcesses[1].arrivalTime = tempProcesses[2].arrivalTime
       /\ tempProcesses[2].burstTime < tempProcesses[1].burstTime

----------------------------------------------------------------------------
(* at a selection of PriorityScheduling with aging: a is waiting since at  *)
(* least agingInterval, b has the same nominal priority and arrives now    *)
AgedAndFresh(a, b) ==
    /\ pc = "PriorityScheduling"
    /\ withAging
    /\ completed < Len(tempProcesses)
    /\ a \in 1..Len(tempProcesses) /\ b \in 1..Len(tempProcesses)
    /\ ~processed[a] /\ ~processed[b]
    /\ tempProcesses[a].priority = tempProcesses[b].priority
    /\ currentTime - tempProcesses[a].arrivalTime >= agingInterval
    /\ currentTime - tempProcesses[b].arrivalTime = 0

EffectiveNow(k) ==
    effectivePriority(withAging, tempProcesses[k].priority, currentTime,
                      tempProcesses[k].arrivalTime)

(* C9 as stated: with aging, at any selection a process that has waited at *)
(* least agingInterval has a strictly smaller effective priority than a    *)
(* process of the same nominal priority p that has waited 0, for every     *)
(* integer p.                                                              *)
C9_AgedStrictlyBetter ==
    \A a, b \in 1..Len(tempProcesses) :
        AgedAndFresh(a, b) => EffectiveNow(a) < EffectiveNow(b)

(* C9 as amended: the same, for every nominal priority p >= 1; for p <= 0  *)
(* both effective priorities are clamped to 0 and are equal.               *)
C9_AgedStrictlyBetterIfPositive ==
    \A a, b \in 1..Len(tempProcesses) :
        AgedAndFresh(a, b) =>
            IF tempProcesses[a].priority >= 1
            THEN EffectiveNow(a) < EffectiveNow(b)
            ELSE EffectiveNow(a) = 0 /\ EffectiveNow(b) = 0

C9_Witness ==
    \E a, b \in 1..Len(tempProcesses) :
        AgedAndFresh(a, b) /\ tempProcesses[a].priority >= 1

----------------------------------------------------------------------------
(* what is left of a process's burst after the given segments *)
Unserved(p, segs) == p.burstTime - SegmentTime(segs, p.PID)

RRExampleTimeline ==
    << ExecutionSegment(1, 0, 2), ExecutionSegment(2, 2, 4),
       ExecutionSegment(1, 4, 6), ExecutionSegment(2, 6, 7),
       ExecutionSegment(1, 7, 8) >>

(* C10: with a positive quantum and valid input, the process RoundRobin    *)
(* has just dequeued ran for min(quantum, its remaining) in one segment,   *)
(* went to the back of the queue exactly when its remaining exceeded the   *)
(* quantum, and otherwise completed at the end of the segment; quantum 2   *)
(* on (1,0,5),(2,0,3) yields (1,0,2),(2,2,4),(1,4,6),(2,6,7),(1,7,8).      *)
C10_RoundRobinServesRemaining ==
    /\ (pc = "RoundRobin" /\ timeQuantum > 0 /\ idx # 0 /\ UniqueIds(processes)
          /\ PositiveBursts) =>
          LET p == tempProcesses[idx]
              seg == execution[Len(execution)]
              remaining == Unserved(p, SubSeq(execution, 1, Len(execution) - 1))
          IN  /\ seg.processID = p.PID
              /\ seg.endTime - seg.startTime = Min(timeQuantum, remaining)
              /\ (remaining > timeQuantum) <=> (q # << >> /\ q[Len(q)] = idx)
              /\ (remaining <= timeQuantum) => p.completionTime = seg.endTime
    /\ (Finished /\ choice = 3 /\ timeQuantum = 2 /\ processes = RRExample)
          => execution = RRExampleTimeline

----------------------------------------------------------------------------
(* the order section 4.1 of the specification asks for: ascending arrival, *)
(* equal arrivals in their input order                                     *)
RECURSIVE StableInsert(_, _)
StableInsert(sorted, p) ==
    IF sorted = << >> THEN << p >>
    ELSE IF p.arrivalTime < sorted[Len(sorted)].arrivalTime
         THEN Append(StableInsert(SubSeq(sorted, 1, Len(sorted) - 1), p),
                     sorted[Len(sorted)])
         ELSE Append(sorted, p)

RECURSIVE StableOrder(_)
StableOrder(ps) ==
    IF ps = << >> THEN << >>
    ELSE StableInsert(StableOrder(SubSeq(ps, 1, Len(ps) - 1)), ps[Len(ps)])

FCFSExampleTimeline ==
    << ExecutionSegment(1, 0, 8), ExecutionSegment(2, 8, 12),
       ExecutionSegment(3, 12, 14) >>

(* C11: FCFS runs the processes in ascending arrival order, equal arrivals *)
(* in their input order, one segment each; the k-th starts at the later of *)
(* its arrival and the completion of the one before (0 for the first) and  *)
(* completes at start + burst; (1,0,8),(2,1,4),(3,2,2) gives (1,0,8),      *)
(* (2,8,12),(3,12,14) and completions 8, 12, 14.                           *)
C11_FCFSInStableArrivalOrder ==
    (Finished /\ choice = 1) =>
        LET order == StableOrder(processes)
        IN  /\ Len(execution) = Len(order)
            /\ \A k \in 1..Len(order) :
                  LET before == IF k = 1 THEN 0 ELSE execution[k - 1].endTime
                      start == Max(order[k].arrivalTime, before)
                  IN  /\ execution[k] = ExecutionSegment(order[k].PID, start,
                                            start + order[k].burstTime)
                      /\ tempProcesses[k].PID = order[k].PID
                      /\ tempProcesses[k].completionTime = start + order[k].burstTime
            /\ processes = FCFSExample => execution = FCFSExampleTimeline

----------------------------------------------------------------------------
(* a record as Process::Process builds it: no derived field written yet *)
Pristine(p) ==
    /\ p.completionTime = 0
    /\ p.turnaroundTime = 0
    /\ p.waitingTime = 0
    /\ p.remainingTime = p.burstTime

(* the policy has been entered and has not run an iteration yet *)
AtPolicyStart ==
    /\ Running
    /\ execution = << >>
    /\ currentTime = 0

(* C12: a run through executeScheduler leaves the caller's list as it was  *)
(* (same order, same arrival, burst and priority, derived fields 0), so    *)
(* whatever ran before, a policy starts from the same records as when it   *)
(* is run first on the base list.                                          *)
C12_BaseListUnchanged ==
    /\ [][processes' = processes]_vars
    /\ [](\A k \in 1..Len(processes) : Pristine(processes[k]))
    /\ [](AtPolicyStart =>
            /\ \A k \in 1..Len(tempProcesses) : Pristine(tempProcesses[k])
            /\ IF choice \in {1, 3}
               THEN tempProcesses \in SortOutcomes(processes)
               ELSE tempProcesses = processes)

(* a round-robin run has been reported and the menu is shown again *)
C12_Witness ==
    /\ pc = "menu"
    /\ choice = 3
    /\ report # << >>
    /\ Len(processes) >= 2

----------------------------------------------------------------------------
DividedByZero(x) == x[1] \in {"inf", "nan"}

(* C13: the aggregator never computes an average or the throughput by      *)
(* dividing by a process count or a totalTime of zero: on an empty set, or *)
(* on one whose largest completion is 0, it ends in a failure instead.     *)
C13_AggregatorFailsExplicitly ==
    (pc = "menu" /\ report # << >>) =>
        /\ ~DividedByZero(report.avgTurnaround)
        /\ ~DividedByZero(report.avgWaiting)
        /\ ~DividedByZero(report.throughput)

----------------------------------------------------------------------------
(* C14: a process set in which two processes share an id is rejected at    *)
(* input validation: no policy runs on it, no segment is emitted and       *)
(* nothing is reported.                                                    *)
C14_DuplicateIdRejected ==
    ~UniqueIds(processes) => (execution = << >> /\ report = << >>)

----------------------------------------------------------------------------
(* a round-robin run on valid input, under way or just finished *)
InRoundRobin ==
    /\ choice = 3
    /\ Running \/ Finished
    /\ timeQuantum > 0
    /\ PositiveBursts

(* C15: throughout a RoundRobin run with a positive quantum the remaining  *)
(* time tracked for a process lies between 0 and that same process's       *)
(* burst, and is 0 exactly when the process's completion has been set,     *)
(* whatever the input order.                                               *)
C15_RemainingWithinOwnBurst ==
    InRoundRobin =>
        \A k \in 1..Len(tempProcesses) :
            /\ 0 <= remainingTime[k]
            /\ remainingTime[k] <= tempProcesses[k].burstTime
            /\ (remainingTime[k] = 0) <=> (tempProcesses[k].completionTime # 0)

----------------------------------------------------------------------------
(* the least arrival among the processes not yet scheduled *)
EarliestPending(ps, done) ==
    CHOOSE t \in { ps[k].arrivalTime : k \in { j \in 1..Len(ps) : ~done[j] } } :
        \A k \in 1..Len(ps) : ~done[k] => t <= ps[k].arrivalTime

(* C16: PriorityScheduling moves its clock without running a process only  *)
(* when no unscheduled process has arrived, and then to the least arrival  *)
(* among the unscheduled ones; when one has arrived it runs one at once;   *)
(* so every segment starts at the later of the previous segment's end (0   *)
(* for the first) and the earliest pending arrival.                        *)
C16_PriorityNeverIdlesWhenReady ==
    /\ [][(pc = "PriorityScheduling" /\ pc' = pc) =>
            IF Ready(tempProcesses, processed, currentTime) = {}
            THEN /\ currentTime' = EarliestPending(tempProcesses, processed)
                 /\ currentTime' > currentTime
                 /\ execution' = execution
                 /\ processed' = processed
            ELSE /\ Len(execution') = Len(execution) + 1
                 /\ execution'[Len(execution')].startTime = currentTime]_vars
    /\ []((pc = "PriorityScheduling" /\ highest # 0) =>
            LET n == Len(execution)
                before == IF n = 1 THEN 0 ELSE execution[n - 1].endTime
                pending == [processed EXCEPT ![highest] = FALSE]
            IN  execution[n].startTime
                   = Max(before, EarliestPending(tempProcesses, pending)))

(* a segment that started after a gap in the middle of the run, the clock  *)
(* having jumped to the earliest pending arrival                           *)
C16_Witness ==
    /\ pc = "PriorityScheduling"
    /\ highest # 0
    /\ Len(execution) >= 2
    /\ execution[Len(execution)].startTime > execution[Len(execution) - 1].endTime

----------------------------------------------------------------------------
(* C17: RoundRobin treats every process as runnable from time 0: each step *)
(* emits a segment for the front of the queue starting at the clock, so    *)
(* the first segment starts at 0 and every later one exactly where the     *)
(* previous one ended, whatever the arrival times are.                     *)
C17_RoundRobinIgnoresArrivals ==
    /\ [](choice = 3 =>
            \A k \in 1..Len(execution) :
                execution[k].startTime
                   = IF k = 1 THEN 0 ELSE execution[k - 1].endTime)
    /\ [][(pc = "RoundRobin" /\ pc' = pc) =>
            /\ Len(execution') = Len(execution) + 1
            /\ execution'[Len(execution')].processID = tempProcesses[Head(q)].PID
            /\ execution'[Len(execution')].startTime = currentTime]_vars

(* with a positive quantum and distinct ids, a process was given a segment *)
(* that starts before the process arrives                                  *)
C17_Witness ==
    /\ choice = 3
    /\ timeQuantum > 0
    /\ UniqueIds(processes)
    /\ \E k \in 1..Len(execution) : \E j \in 1..Len(processes) :
          /\ processes[j].PID = execution[k].processID
          /\ execution[k].startTime < processes[j].arrivalTime

----------------------------------------------------------------------------
NonPreemptive == choice \in {1, 2, 4, 5} /\ (Running \/ Finished)

(* C18: FCFS, SJF and PriorityScheduling are non-preemptive: every segment *)
(* is the whole run of one process, as long as its burst, starting no      *)
(* earlier than its arrival and ending at its completion; no process gets  *)
(* two segments; at the end there are as many segments as processes.       *)
C18_OneSegmentPerProcess ==
    NonPreemptive =>
        /\ \A k \in 1..Len(execution) : \E j \in 1..Len(tempProcesses) :
              /\ tempProcesses[j].PID = execution[k].processID
              /\ execution[k].endTime - execution[k].startTime
                    = tempProcesses[j].burstTime
              /\ execution[k].startTime >= tempProcesses[j].arrivalTime
              /\ tempProcesses[j].completionTime = execution[k].endTime
        /\ UniqueIds(processes) =>
              \A k, h \in 1..Len(execution) :
                  execution[k].processID = execution[h].processID => k = h
        /\ Finished => Len(execution) = Len(processes)

(* a priority run has ended in which a process of strictly higher priority *)
(* arrived while a segment was running, and the segment ran to its end     *)
C18_Witness ==
    /\ Finished
    /\ choice = 4
    /\ UniqueIds(processes)
    /\ \E k \in 1..Len(execution) : \E j, h \in 1..Len(processes) :
          /\ processes[j].PID = execution[k].processID
          /\ processes[h].priority < processes[j].priority
          /\ execution[k].startTime < processes[h].arrivalTime
          /\ processes[h].arrivalTime < execution[k].endTime

----------------------------------------------------------------------------
(* the end of the last segment of segs that carries processID, 0 if none *)
RECURSIVE LastEndOf(_, _)
LastEndOf(segs, processID) ==
    IF segs = << >> THEN 0
    ELSE IF segs[Len(segs)].processID = processID THEN segs[Len(segs)].endTime
    ELSE LastEndOf(SubSeq(segs, 1, Len(segs) - 1), processID)

(* C19: on valid input, under every policy, a completion time once written *)
(* is never written again, at the end every process has one and it is the  *)
(* end of the last segment carrying its id, and the total time the         *)
(* aggregator reports is the end of the last segment of the timeline.      *)
C19_CompletionIsLastSegmentEnd ==
    /\ [][(ValidInput /\ Running /\ pc' = pc) =>
            \A k \in 1..Len(tempProcesses) :
                \/ tempProcesses'[k].completionTime = tempProcesses[k].completionTime
                \/ tempProcesses[k].completionTime = 0]_vars
    /\ []((ValidInput /\ Finished) =>
            \A k \in 1..Len(tempProcesses) :
                /\ tempProcesses[k].completionTime # 0
                /\ tempProcesses[k].completionTime
                      = LastEndOf(execution, tempProcesses[k].PID))
    /\ [][(ValidInput /\ Finished /\ pc' = "menu") =>
            /\ execution # << >>
            /\ report'.totalTime = execution[Len(execution)].endTime]_vars

(* a round-robin run on valid input has ended in which a process had two   *)
(* segments and its completion is the end of the later one                 *)
C19_Witness ==
    /\ Finished
    /\ choice = 3
    /\ ValidInput
    /\ \E k, h \in 1..Len(execution) : \E j \in 1..Len(tempProcesses) :
          /\ k < h
          /\ execution[k].processID = execution[h].processID
          /\ tempProcesses[j].PID = execution[h].processID
          /\ tempProcesses[j].completionTime = execution[h].endTime
          /\ tempProcesses[j].completionTime # execution[k].endTime

----------------------------------------------------------------------------
(* the lengths of the segments, in order *)
SegmentLengths(segs) ==
    [k \in 1..Len(segs) |-> segs[k].endTime - segs[k].startTime]

(* C20: on valid input, given in any order, when a policy has ended the    *)
(* lengths of all its segments add up to the bursts of all the processes.  *)
C20_BusyTimeIsTotalBurst ==
    (ValidInput /\ choice \in 1..5 /\ Finished) =>
        SumSeq(SegmentLengths(execution)) = SumOf(processes, "burstTime")

(* a round-robin run has ended on a list that was not given in arrival     *)
(* order, with bursts that differ and a process cut into several segments  *)
C20_Witness ==
    /\ Finished
    /\ choice = 3
    /\ ValidInput
    /\ Len(execution) > Len(processes)
    /\ \E a, b \in 1..Len(processes) :
          /\ a < b
          /\ processes[b].arrivalTime < processes[a].arrivalTime
          /\ processes[a].burstTime # processes[b].burstTime

----------------------------------------------------------------------------
(* k is waiting at a selection of the aging policy: arrived, not yet run *)
WaitingWithAging(k) ==
    /\ pc = "PriorityScheduling"
    /\ withAging
    /\ k \in 1..Len(tempProcesses)
    /\ ~processed[k]
    /\ tempProcesses[k].arrivalTime <= currentTime

(* C21: with aging, for every integer nominal priority, negative ones      *)
(* included, the effective priority of a waiting process is at most its    *)
(* nominal priority, and it does not increase as currentTime grows while   *)
(* the process waits.                                                      *)
C21_AgingNeverWorse ==
    /\ [](\A k \in 1..Len(tempProcesses) :
            WaitingWithAging(k) => EffectiveNow(k) <= tempProcesses[k].priority)
    /\ [][\A k \in 1..Len(tempProcesses) :
            (WaitingWithAging(k) /\ WaitingWithAging(k)') =>
                EffectiveNow(k)' <= EffectiveNow(k)]_vars

====
